---------------------------- MODULE Spec2Model ----------------------------
(***************************************************************************)
(* A model of the three sorting engines of the bitonic_sort crate:         *)
(*   bitonic_serial::bitonic_sort     (src/src/bitonic_serial.rs)          *)
(*   bitonic_parallel::bitonic_sort   (src/src/bitonic_parallel.rs)        *)
(*   parallel_sort::parallel_sort     (src/src/parallel_sort.rs)           *)
(* One behaviour is one call of one engine on one input vector.  Worker    *)
(* threads are modelled individually: a fan-out puts its workers in the    *)
(* state, every worker runs as a step of its own, and the spawning thread  *)
(* passes the barrier only when all of them have finished.                 *)
(***************************************************************************)
EXTENDS Integers, Sequences, FiniteSets, TLC

(***************************************************************************)
(* Bounds of the model and constants of the program.                       *)
(***************************************************************************)
\* Longest input vector of the exhaustive specification.
MaxLen == 3
\* Element values of the exhaustive specification are 0..MaxVal and NaN.
MaxVal == 2
\* Requested parallelism of the exhaustive specification: 0..MaxReq and u8::MAX.
MaxReq == 4
\* Longest input vector of the specification that draws every request 0..255.
MaxLenAllReq == 2
\* Longest input vector of the specification of the serial engine.
MaxLenSerial == 5
\* u8::MAX, the fallback of checked_next_power_of_two().unwrap_or(u8::MAX).
U8Max == 255

\* An element that is incomparable with every element (a float NaN).
NaN == (-1)

Values == (0..MaxVal) \cup {NaN}

\* PartialOrd on the element type: every comparison with NaN is false.
Gt(a, b) == a # NaN /\ b # NaN /\ a > b
Ge(a, b) == a # NaN /\ b # NaN /\ a >= b
Le(a, b) == a # NaN /\ b # NaN /\ a <= b

(***************************************************************************)
(* Vec and integer helpers of the standard library, as the engines use     *)
(* them.                                                                   *)
(*                                                                         *)
(* Where a definition uses an intermediate vector many times it binds it   *)
(* as  CHOOSE r \in {F(x) : x \in {e}} : TRUE,  which is F(e) with e       *)
(* evaluated once.                                                         *)
(***************************************************************************)
RECURSIVE NextPow2From(_, _)
NextPow2From(k, n) == IF k >= n THEN k ELSE NextPow2From(2 * k, n)

\* usize::next_power_of_two: the smallest power of two >= n (1 for n = 0).
next_power_of_two(n) == NextPow2From(1, n)

\* usize::is_power_of_two.
is_power_of_two(n) == n >= 1 /\ next_power_of_two(n) = n

\* u8::checked_next_power_of_two().unwrap_or(u8::MAX).
checked_next_power_of_two_or_max(p) ==
    IF next_power_of_two(p) > U8Max THEN U8Max ELSE next_power_of_two(p)

\* A cast to a type one bit narrower, which keeps the low seven bits.
as_u8_seven_bits(x) == x % ((U8Max + 1) \div 2)

\* `x as u8`: the low eight bits.
as_u8(x) == x % (U8Max + 1)

\* Vec::resize(n, v) for n >= len.
resize(s, n, v) == s \o [j \in 1..(n - Len(s)) |-> v]

\* Vec::truncate(n).
truncate(s, n) == IF n >= Len(s) THEN s ELSE SubSeq(s, 1, n)

\* The slice s[lo..hi] (0-based, hi exclusive).
Slice(s, lo, hi) == SubSeq(s, lo + 1, hi)

\* s with the slice starting at 0-based offset lo overwritten by t.
Splice(s, lo, t) ==
    CHOOSE r \in
      {[j \in 1..Len(s) |-> IF j > lo /\ j <= lo + Len(tv) THEN tv[j - lo] ELSE s[j]] :
       tv \in {t}} : TRUE

\* An element of s is incomparable.
has_none(s) == \E j \in 1..Len(s) : s[j] = NaN

\* The padding fold of an engine runs on s (a vector of a length that is not
\* a power of two) and compares every element x of s with the running
\* maximum: one of those comparisons has an undefined order.
fold_compares_none(s) == s # <<>> /\ ~is_power_of_two(Len(s)) /\ has_none(s)

\* __bitonic_sort on the slice s, of either bitonic engine, performs a
\* comparison of undefined order: before anything is swapped the recursion
\* reaches the slices of length 2, whose merges compare every element of s
\* with its neighbour.
network_compares_none(s) == Len(s) >= 2 /\ has_none(s)

(***************************************************************************)
(* The comparisons of the bitonic engines, as pairs <<i, j>> of 0-based    *)
(* indices of the vector: the element at i is compared with the element at *)
(* j.                                                                      *)
(***************************************************************************)
RECURSIVE fold_trace(_, _, _, _, _)
\* The padding fold over s[a..b] (1-based, inclusive) from the state st:
\* max is the index of the element the reference max points to, pairs the
\* comparisons made so far.  Every x is compared with *max; max moves to x
\* unless max > x (strict, bitonic_parallel) or max.ge(x) (bitonic_serial).
fold_trace(st, s, a, b, strict) ==
    IF a > b THEN st
    ELSE IF a = b
         THEN LET m    == s[st.max + 1]
                  keep == IF strict THEN Gt(m, s[a]) ELSE Ge(m, s[a])
              IN  [max   |-> IF keep THEN st.max ELSE a - 1,
                   pairs |-> Append(st.pairs, <<st.max, a - 1>>)]
         ELSE LET mid  == (a + b) \div 2
                  left == fold_trace(st, s, a, mid, strict)
              IN  IF left.max >= 0 THEN fold_trace(left, s, mid + 1, b, strict) ELSE st

\* The comparisons of the padding of s: none when the length is a power of
\* two, else those of the fold, which starts at nums.first().
fold_pairs(s, strict) ==
    IF s = <<>> \/ is_power_of_two(Len(s)) THEN <<>>
    ELSE fold_trace([max |-> 0, pairs |-> <<>>], s, 1, Len(s), strict).pairs

\* The comparisons of one __bitonic_merge on the window nums[lo..lo+len]
\* made by the zip of its two halves from pair a up to pair b (exclusive).
zip_pairs(lo, len, a, b) ==
    SubSeq([k \in 1..(b - a) |-> <<lo + a + k - 1, lo + a + k - 1 + len \div 2>>],
           1, b - a)

\* for i in 0..len / size { __bitonic_merge(&mut nums[i*size..(i+1)*size]) }
\* on the slice nums[lo..lo+len], each merge on the calling thread.
merge_windows_pairs(lo, len, size) ==
    LET h == size \div 2
        n == (len \div size) * h
    IN  SubSeq([k \in 1..n |->
                   LET w == lo + ((k - 1) \div h) * size + ((k - 1) % h)
                   IN  <<w, w + h>>], 1, n)

RECURSIVE merge_loop_pairs(_, _, _)
\* while size > 1 { ...; size /= 2 }
merge_loop_pairs(lo, len, size) ==
    IF size <= 1 THEN <<>>
    ELSE merge_windows_pairs(lo, len, size) \o merge_loop_pairs(lo, len, size \div 2)

RECURSIVE network_pairs(_, _)
\* __bitonic_sort on the slice nums[lo..lo+len] on one thread.
network_pairs(lo, len) ==
    IF len <= 1 THEN <<>>
    ELSE network_pairs(lo, len \div 2)
           \o network_pairs(lo + len \div 2, len - len \div 2)
           \o merge_loop_pairs(lo, len, len)

\* The reference vector of a length: all its elements are equal.  No
\* operation of an engine changes it (a swap exchanges equal elements).
Flat(n) == [j \in 1..n |-> 0]

(***************************************************************************)
(* bitonic_serial.rs                                                       *)
(***************************************************************************)
RECURSIVE fold_max_ge(_, _, _, _)
\* nums[a..b].iter().fold(max, |max, x| if max.ge(x) { max } else { x }),
\* the elements taken in order (the range is folded half by half).
fold_max_ge(max, s, a, b) ==
    IF a > b THEN max
    ELSE IF a = b THEN (IF Ge(max, s[a]) THEN max ELSE s[a])
         ELSE LET mid  == (a + b) \div 2
                  left == fold_max_ge(max, s, a, mid)
              IN  IF left = left THEN fold_max_ge(left, s, mid + 1, b) ELSE max

\* A merge that forgets `^ reverse`: every window is merged ascending.
bitonic_merge_serial_ascending_only(s, reverse) ==
    LET len == Len(s)
        h   == len \div 2
    IN  SubSeq([j \in 1..len |->
                   IF j <= h
                   THEN IF Gt(s[j], s[j + h]) THEN s[j + h] ELSE s[j]
                   ELSE IF j <= 2 * h
                        THEN IF Gt(s[j - h], s[j]) THEN s[j - h] ELSE s[j]
                        ELSE s[j]], 1, len)

\* __bitonic_merge of bitonic_serial: zip the two halves, swap a pair when
\* (num1 > num2) ^ reverse.
bitonic_merge_serial(s, reverse) ==
    LET len == Len(s)
        h   == len \div 2
    IN  SubSeq([j \in 1..len |->
                   IF j <= h
                   THEN IF Gt(s[j], s[j + h]) # reverse THEN s[j + h] ELSE s[j]
                   ELSE IF j <= 2 * h
                        THEN IF Gt(s[j - h], s[j]) # reverse THEN s[j - h] ELSE s[j]
                        ELSE s[j]], 1, len)

\* for i in 0..len / size { __bitonic_merge(&mut nums[i*size..(i+1)*size]) }
merge_windows_serial(s, reverse, size) ==
    CHOOSE r \in
      {SubSeq([j \in 1..Len(s) |->
                  LET i == (j - 1) \div size
                  IN  IF i < Len(merged) THEN merged[i + 1][j - i * size] ELSE s[j]],
              1, Len(s)) :
       merged \in {SubSeq([i \in 1..(Len(s) \div size) |->
                             bitonic_merge_serial(Slice(s, (i - 1) * size, i * size), reverse)],
                          1, Len(s) \div size)}} : TRUE

RECURSIVE merge_loop_serial(_, _, _)
\* let mut size = len; while size > 1 { ...; size /= 2; }
merge_loop_serial(s, reverse, size) ==
    IF size <= 1 THEN s
    ELSE CHOOSE r \in {merge_loop_serial(merged, reverse, size \div 2) :
                        merged \in {merge_windows_serial(s, reverse, size)}} : TRUE

RECURSIVE bitonic_sort_rec_serial(_, _)
\* __bitonic_sort of bitonic_serial.
bitonic_sort_rec_serial(s, reverse) ==
    CHOOSE r \in
      {IF Len(v) <= 1 THEN v
       ELSE CHOOSE q \in
              {merge_loop_serial(halves, reverse, Len(v)) :
               halves \in {bitonic_sort_rec_serial(Slice(v, 0, Len(v) \div 2), FALSE)
                             \o bitonic_sort_rec_serial(Slice(v, Len(v) \div 2, Len(v)), TRUE)}} : TRUE :
       v \in {s}} : TRUE

\* The padded vector the serial engine sorts.
pad_serial(s) ==
    IF is_power_of_two(Len(s)) THEN s
    ELSE resize(s, next_power_of_two(Len(s)), fold_max_ge(s[1], s, 1, Len(s)))

\* bitonic_serial::bitonic_sort.
bitonic_sort_serial(s) ==
    IF s = <<>> THEN s
    ELSE truncate(bitonic_sort_rec_serial(pad_serial(s), FALSE), Len(s))

(***************************************************************************)
(* bitonic_parallel.rs: the computations of one thread.                    *)
(***************************************************************************)
RECURSIVE fold_max_gt(_, _, _, _)
\* nums[a..b].iter().fold(max, |max, x| if max > x { max } else { x }),
\* the elements taken in order (the range is folded half by half).
fold_max_gt(max, s, a, b) ==
    IF a > b THEN max
    ELSE IF a = b THEN (IF Gt(max, s[a]) THEN max ELSE s[a])
         ELSE LET mid  == (a + b) \div 2
                  left == fold_max_gt(max, s, a, mid)
              IN  IF left = left THEN fold_max_gt(left, s, mid + 1, b) ELSE max

\* The padded vector bitonic_parallel::bitonic_sort sorts.
pad_bitonic_parallel(s) ==
    IF is_power_of_two(Len(s)) THEN s
    ELSE resize(s, next_power_of_two(Len(s)), fold_max_gt(s[1], s, 1, Len(s)))

\* A coercion that rounds down: the largest power of two <= p, 1 for p = 0.
coerce_rounding_down(p) ==
    IF p <= 1 THEN 1
    ELSE IF next_power_of_two(p) = p THEN p ELSE next_power_of_two(p) \div 2

\* parallel = parallel.checked_next_power_of_two().unwrap_or(u8::MAX)
coerce_bitonic_parallel(p) == checked_next_power_of_two_or_max(p)

\* __bitonic_merge with parallel <= 1: the calling thread zips the halves.
bitonic_merge_inline(s, reverse) ==
    LET len == Len(s)
        h   == len \div 2
    IN  SubSeq([j \in 1..len |->
                   IF j <= h
                   THEN IF Gt(s[j], s[j + h]) # reverse THEN s[j + h] ELSE s[j]
                   ELSE IF j <= 2 * h
                        THEN IF Gt(s[j - h], s[j]) # reverse THEN s[j - h] ELSE s[j]
                        ELSE s[j]], 1, len)

\* The merge loop of __bitonic_sort with parallel <= 1, one size.
merge_windows_inline(s, reverse, size) ==
    CHOOSE r \in
      {SubSeq([j \in 1..Len(s) |->
                  LET i == (j - 1) \div size
                  IN  IF i < Len(merged) THEN merged[i + 1][j - i * size] ELSE s[j]],
              1, Len(s)) :
       merged \in {SubSeq([i \in 1..(Len(s) \div size) |->
                             bitonic_merge_inline(Slice(s, (i - 1) * size, i * size), reverse)],
                          1, Len(s) \div size)}} : TRUE

RECURSIVE merge_loop_inline(_, _, _)
merge_loop_inline(s, reverse, size) ==
    IF size <= 1 THEN s
    ELSE CHOOSE r \in {merge_loop_inline(merged, reverse, size \div 2) :
                        merged \in {merge_windows_inline(s, reverse, size)}} : TRUE

RECURSIVE bitonic_sort_inline(_, _)
\* __bitonic_sort with parallel <= 1: both halves and every merge run on the
\* calling thread.
bitonic_sort_inline(s, reverse) ==
    CHOOSE r \in
      {IF Len(v) <= 1 THEN v
       ELSE CHOOSE q \in
              {merge_loop_inline(halves, reverse, Len(v)) :
               halves \in {bitonic_sort_inline(Slice(v, 0, Len(v) \div 2), FALSE)
                             \o bitonic_sort_inline(Slice(v, Len(v) \div 2, Len(v)), TRUE)}} : TRUE :
       v \in {s}} : TRUE

\* A fallback that takes the worker count from the window's length, as
\* parallel_sort does: one worker per element, not one per pair.
merge_partition_worker_per_element(len, par) ==
    IF len \div (2 * par) = 0
    THEN [parallel |-> as_u8(len), size |-> 1]
    ELSE [parallel |-> par, size |-> len \div (2 * par)]

\* The worker count and chunk size of a parallel __bitonic_merge on a window
\* of length len: size = len / (2 * parallel), and when that is 0,
\* parallel = (len / 2) as u8 and size = 1.
merge_partition(len, par) ==
    IF len \div (2 * par) = 0
    THEN [parallel |-> as_u8(len \div 2), size |-> 1]
    ELSE [parallel |-> par, size |-> len \div (2 * par)]

\* The 0-based indices merge worker i reads and writes, relative to the
\* window: slice1 = i*size..(i+1)*size, slice2 = len/2 + the same.
merge_worker_slice1(len, i, size) == (i * size)..((i + 1) * size - 1)
\* A second chunk whose range is left open: it runs to the end of the window.
merge_worker_slice2_open_ended(len, i, size) ==
    (len \div 2 + i * size)..(len - 1)

merge_worker_slice2(len, i, size) ==
    (len \div 2 + i * size)..(len \div 2 + (i + 1) * size - 1)

\* The indices of nums that merge worker i of the window nums[wlo..wlo+len]
\* reads and writes.
merge_worker_indices(wlo, len, i, size) ==
    {wlo + o : o \in merge_worker_slice1(len, i, size) \cup merge_worker_slice2(len, i, size)}

\* The comparisons of merge worker i on the window nums[wlo..wlo+len]: the
\* zip of slice1 and slice2.
merge_worker_pairs(wlo, len, i, size) == zip_pairs(wlo, len, i * size, (i + 1) * size)

\* Merge worker i compares a pair of undefined order: each pair of its chunk
\* is compared once, with the values it holds when the worker starts.
merge_worker_compares_none(v, wlo, len, i, size) ==
    \E o \in merge_worker_slice1(len, i, size) :
        /\ wlo + o + len \div 2 < Len(v)
        /\ v[wlo + o + 1] = NaN \/ v[wlo + o + len \div 2 + 1] = NaN

\* The body of merge worker i on the window v[wlo..wlo+len]: zip slice1 and
\* slice2 and swap a pair when (num1 > num2) ^ reverse.
merge_worker_body(v, wlo, len, reverse, i, size) ==
    LET h  == len \div 2
        s1 == merge_worker_slice1(len, i, size)
        s2 == merge_worker_slice2(len, i, size)
    IN  [j \in 1..Len(v) |->
            LET o == j - 1 - wlo
            IN  IF o \in s1 /\ wlo + o + h < Len(v)
                THEN IF Gt(v[j], v[j + h]) # reverse THEN v[j + h] ELSE v[j]
                ELSE IF o \in s2 /\ o - h >= 0
                     THEN IF Gt(v[j - h], v[j]) # reverse THEN v[j - h] ELSE v[j]
                     ELSE v[j]]

(***************************************************************************)
(* parallel_sort.rs: the computations of one thread.                       *)
(***************************************************************************)
\* The padded vector parallel_sort sorts.
pad_parallel_sort(s) ==
    IF is_power_of_two(Len(s)) THEN s
    ELSE resize(s, next_power_of_two(Len(s)), fold_max_gt(s[1], s, 1, Len(s)))

\* parallel = if parallel < 1 { 1 } else
\*     { parallel.checked_next_power_of_two().unwrap_or(u8::MAX) }
coerce_parallel_sort(p) ==
    IF p < 1 THEN 1 ELSE checked_next_power_of_two_or_max(p)

\* size = len / parallel; if size < 1 { size = 1; parallel = len as u8 }
chunk_partition(len, par) ==
    IF len \div par < 1
    THEN [parallel |-> as_u8(len), size |-> 1]
    ELSE [parallel |-> par, size |-> len \div par]

\* The range i * size..(i + 1) * size of worker i, in phase 1 (line 40) and
\* in a merge round (line 56): its first index and the index past its last.
chunk_start(i, size) == i * size

\* A range that takes two chunks, as if size were the size before doubling.
chunk_end_two_chunks(i, size) == (i + 2) * size

chunk_end(i, size) == (i + 1) * size

\* The indices of nums that worker i reads and writes.
worker_indices(i, size) == chunk_start(i, size)..(chunk_end(i, size) - 1)

\* slice.sort_unstable_by(|x, y| x.partial_cmp(y).expect(..)) on a slice
\* whose elements are all comparable: its ascending arrangement.  Element k
\* goes to the position that counts the smaller elements and the equal ones
\* before it.
sort_unstable_by(s) ==
    LET n    == Len(s)
        rank == SubSeq([k \in 1..n |->
                          Cardinality({m \in 1..n :
                              s[m] < s[k] \/ (s[m] = s[k] /\ m <= k)})], 1, n)
    IN  SubSeq([j \in 1..n |-> s[CHOOSE k \in 1..n : rank[k] = j]], 1, n)

\* The sort of a chunk panics ("float error!") when a comparison returns
\* None: the chunk has at least two elements, so every element is compared,
\* and one of them is NaN.
sort_panics(s) == Len(s) >= 2 /\ \E j \in 1..Len(s) : s[j] = NaN

\* One iteration of `while l < lb && r < rb` on the window s, from the
\* state [l, r, tmp]; past the end of the loop the state stays.  The field
\* none tells that a comparison shared_slice[l] <= shared_slice[r] had an
\* undefined order.
merge_step(s, st) ==
    IF st.l < Len(s) \div 2 /\ st.r < Len(s)
    THEN LET none == st.none \/ s[st.l + 1] = NaN \/ s[st.r + 1] = NaN
         IN  IF Le(s[st.l + 1], s[st.r + 1])
             THEN [l |-> st.l + 1, r |-> st.r,
                   tmp |-> Append(st.tmp, s[st.l + 1]), none |-> none]
             ELSE [l |-> st.l, r |-> st.r + 1,
                   tmp |-> Append(st.tmp, s[st.r + 1]), none |-> none]
    ELSE st

RECURSIVE merge_steps(_, _, _)
\* n iterations of the loop (taken half by half).
merge_steps(s, st, n) ==
    IF n = 0 THEN st
    ELSE IF n = 1 THEN merge_step(s, st)
         ELSE LET half == merge_steps(s, st, n \div 2)
              IN  IF half.l >= 0 THEN merge_steps(s, half, n - n \div 2) ELSE st

\* The loop of a merge worker on its window s (size = Len(s)): it runs at
\* most size times.
merge_worker_loop(s) ==
    merge_steps(s, [l |-> 0, r |-> Len(s) \div 2, tmp |-> <<>>, none |-> FALSE], Len(s))

\* The body of a merge worker on its window s: the loop, then the two
\* extend_from_slice calls; tmp is copied back over the window.
merge_worker_window(s) ==
    LET st == merge_worker_loop(s)
    IN  st.tmp \o Slice(s, st.l, Len(s) \div 2) \o Slice(s, st.r, Len(s))

(***************************************************************************)
(* The state of one call.                                                  *)
(*   engine      the engine called                                         *)
(*   input, req  the arguments: the caller's vector as passed, and the     *)
(*               requested parallelism (a u8)                              *)
(*   nums        the caller's vector                                       *)
(*   origin_len  the local origin_len                                      *)
(*   pc          "call" before the call, "sorting" inside it, "returned"   *)
(*               after it returned, "panicked" after it unwound            *)
(*   parallel    the local parallel after coercion (parallel_sort halves   *)
(*               it every merge round)                                     *)
(*   size        parallel_sort's local size                                *)
(*   round       parallel_sort: "local" in phase 1, "merge" in phase 2     *)
(*   todo        parallel_sort: the workers of the current round that are  *)
(*               spawned and have not finished                             *)
(*   failed      parallel_sort: the workers of the round that panicked     *)
(*   frames      bitonic_parallel: the activations of __bitonic_sort that  *)
(*               exist, each with the merge workers it waits for           *)
(*   spawned     the number of threads spawned so far                      *)
(*   none_cmp    a comparison of two elements has had an undefined order   *)
(*   compared    the comparisons the last step of a bitonic engine made,   *)
(*               in order, as pairs of indices of nums                     *)
(*   compared_ref  the comparisons the same step makes in the call on the  *)
(*               reference vector of the same length                       *)
(***************************************************************************)
VARIABLES engine, input, req, nums, origin_len, pc, parallel, size, round,
          todo, failed, frames, spawned, none_cmp, compared, compared_ref

vars == <<engine, input, req, nums, origin_len, pc, parallel, size, round,
          todo, failed, frames, spawned, none_cmp, compared, compared_ref>>

args == <<engine, input, req>>

Engines == {"bitonic_serial", "bitonic_parallel", "parallel_sort"}

RECURSIVE SeqsUpTo(_, _)
\* Every sequence over S of length at most n.
SeqsUpTo(S, n) ==
    IF n = 0 THEN {<<>>}
    ELSE LET shorter == SeqsUpTo(S, n - 1)
         IN  shorter \cup {Append(t, x) : t \in {u \in shorter : Len(u) = n - 1}, x \in S}

\* The state before the call of engine e on vector v with parallelism p.
Start(e, v, p) ==
    /\ engine = e
    /\ input = v
    /\ req = p
    /\ nums = v
    /\ origin_len = 0
    /\ pc = "call"
    /\ parallel = 0
    /\ size = 0
    /\ round = "none"
    /\ todo = {}
    /\ failed = {}
    /\ frames = {}
    /\ spawned = 0
    /\ none_cmp = FALSE
    /\ compared = <<>>
    /\ compared_ref = <<>>

\* What a step records of its comparisons: whether one had an undefined
\* order, the pairs compared, and the pairs compared on the reference vector.
Compares(none, pairs, ref_pairs) ==
    /\ none_cmp' = (none_cmp \/ none)
    /\ compared' = pairs
    /\ compared_ref' = ref_pairs

\* A step that compares nothing.
NoComparison == Compares(FALSE, <<>>, <<>>)

\* The serial engine takes no parallelism: its calls are drawn with req = 0.
Requests(e, S) == IF e = "bitonic_serial" THEN {0} ELSE S

Init ==
    \E e \in Engines, v \in SeqsUpTo(Values, MaxLen) :
        \E p \in Requests(e, (0..MaxReq) \cup {U8Max}) : Start(e, v, p)

(***************************************************************************)
(* bitonic_serial::bitonic_sort: one thread, one step.                     *)
(***************************************************************************)
SerialCall ==
    /\ engine = "bitonic_serial"
    /\ pc = "call"
    /\ origin_len' = Len(nums)
    /\ nums' = bitonic_sort_serial(nums)
    /\ pc' = "returned"
    /\ IF nums = <<>>
       THEN NoComparison
       ELSE Compares(fold_compares_none(nums) \/ network_compares_none(pad_serial(nums)),
                     fold_pairs(nums, FALSE) \o network_pairs(0, Len(pad_serial(nums))),
                     fold_pairs(Flat(Len(nums)), FALSE)
                         \o network_pairs(0, Len(pad_serial(Flat(Len(nums))))))
    /\ UNCHANGED <<args, parallel, size, round, todo, failed, frames, spawned>>

(***************************************************************************)
(* parallel_sort::parallel_sort.                                           *)
(***************************************************************************)
\* Lines 11-43: the empty vector returns at once; otherwise pad, coerce,
\* partition and spawn the phase-1 workers.
ParallelSortCall ==
    /\ engine = "parallel_sort"
    /\ pc = "call"
    /\ IF nums = <<>>
       THEN /\ pc' = "returned"
            /\ NoComparison
            /\ UNCHANGED <<nums, origin_len, parallel, size, round, todo, spawned>>
       ELSE LET padded == pad_parallel_sort(nums)
                part   == chunk_partition(Len(padded), coerce_parallel_sort(req))
            IN  /\ origin_len' = Len(nums)
                /\ nums' = padded
                /\ parallel' = part.parallel
                /\ size' = part.size
                /\ round' = "local"
                /\ todo' = 0..(part.parallel - 1)
                /\ spawned' = spawned + part.parallel
                /\ pc' = "sorting"
                /\ Compares(fold_compares_none(nums), <<>>, <<>>)
    /\ UNCHANGED <<args, failed, frames>>

\* Lines 38-42: phase-1 worker i sorts its chunk, or panics: on a comparison
\* that returns None, and on a chunk that is not inside the slice (the
\* range index is checked).  A panicking sort leaves its chunk in an
\* unspecified arrangement, which nothing reads afterwards: it is kept.
LocalSortWorker(i) ==
    /\ pc = "sorting"
    /\ round = "local"
    /\ i \in todo
    /\ todo' = todo \ {i}
    /\ LET chunk == Slice(nums, chunk_start(i, size), chunk_end(i, size))
       IN  /\ IF chunk_end(i, size) > Len(nums) \/ sort_panics(chunk)
              THEN /\ failed' = failed \cup {i}
                   /\ UNCHANGED nums
              ELSE /\ nums' = Splice(nums, chunk_start(i, size), sort_unstable_by(chunk))
                   /\ UNCHANGED failed
           /\ Compares(sort_panics(chunk), <<>>, <<>>)
    /\ UNCHANGED <<args, origin_len, pc, parallel, size, round, frames, spawned>>

\* Lines 53-73: merge worker i merges the halves of its window.
MergeRoundWorker(i) ==
    /\ pc = "sorting"
    /\ round = "merge"
    /\ i \in todo
    /\ todo' = todo \ {i}
    /\ chunk_end(i, size) <= Len(nums)
    /\ LET window == Slice(nums, chunk_start(i, size), chunk_end(i, size))
       IN  /\ nums' = Splice(nums, chunk_start(i, size), merge_worker_window(window))
           /\ Compares(merge_worker_loop(window).none, <<>>, <<>>)
    /\ UNCHANGED <<args, origin_len, pc, parallel, size, round, failed, frames, spawned>>

\* A barrier that does not join: the next round is spawned, or the call
\* returns, while workers of the round are still running.
Barrier_without_join ==
    /\ engine = "parallel_sort"
    /\ pc = "sorting"
    /\ IF failed # {}
       THEN /\ pc' = "panicked"
            /\ UNCHANGED <<nums, parallel, size, round, todo, spawned>>
       ELSE IF parallel > 1
            THEN /\ parallel' = parallel \div 2
                 /\ size' = size * 2
                 /\ round' = "merge"
                 /\ todo' = todo \cup (0..(parallel \div 2 - 1))
                 /\ spawned' = spawned + parallel \div 2
                 /\ UNCHANGED <<nums, pc>>
            ELSE /\ nums' = truncate(nums, origin_len)
                 /\ pc' = "returned"
                 /\ UNCHANGED <<parallel, size, round, todo, spawned>>
    /\ NoComparison
    /\ UNCHANGED <<args, origin_len, failed, frames>>

\* Lines 44-46 and 75-77 with the loop head of line 47: every handle of the
\* round is joined.  join().unwrap() panics for a worker that panicked: the
\* scope then waits for the other workers and the call unwinds, past
\* nums.truncate.  Otherwise the next merge round is spawned, or, with
\* parallel = 1, the scope ends and line 80 truncates.
Barrier ==
    /\ engine = "parallel_sort"
    /\ pc = "sorting"
    /\ todo = {}
    /\ IF failed # {}
       THEN /\ pc' = "panicked"
            /\ UNCHANGED <<nums, parallel, size, round, todo, spawned>>
       ELSE IF parallel > 1
            THEN /\ parallel' = parallel \div 2
                 /\ size' = size * 2
                 /\ round' = "merge"
                 /\ todo' = 0..(parallel \div 2 - 1)
                 /\ spawned' = spawned + parallel \div 2
                 /\ UNCHANGED <<nums, pc>>
            ELSE /\ nums' = truncate(nums, origin_len)
                 /\ pc' = "returned"
                 /\ UNCHANGED <<parallel, size, round, todo, spawned>>
    /\ NoComparison
    /\ UNCHANGED <<args, origin_len, failed, frames>>

(***************************************************************************)
(* bitonic_parallel::bitonic_sort.                                         *)
(*                                                                         *)
(* A frame is one activation of __bitonic_sort(&mut nums[lo..lo+len],      *)
(* reverse, parallel).  The frame of the whole vector runs on the calling  *)
(* thread, every other frame on the thread spawned for it at lines 122 and *)
(* 128.  Its pc is "start" (spawned, not yet run), "halves" (inside the    *)
(* scope of lines 120-133, waiting for its two children), "merging" (in    *)
(* the loop of lines 136-141, about to call __bitonic_merge on window i of *)
(* the current size), "mwait" (inside the scope of __bitonic_merge,        *)
(* waiting for the merge workers in todo, mpar of them spawned, each with  *)
(* a chunk of msize pairs) or "done".                                      *)
(***************************************************************************)
Frame(lo, len, reverse, par) ==
    [lo |-> lo, len |-> len, reverse |-> reverse, parallel |-> par,
     pc |-> "start", size |-> 0, i |-> 0, todo |-> {}, msize |-> 0, mpar |-> 0]

\* The activations a frame spawns at lines 120-133.
LeftChild(f)  == Frame(f.lo, f.len \div 2, FALSE, f.parallel \div 2)
RightChild(f) ==
    Frame(f.lo + f.len \div 2, f.len - f.len \div 2, TRUE, f.parallel \div 2)

IsChildOf(g, f) ==
    \/ g.lo = f.lo /\ g.len = f.len \div 2
    \/ g.lo = f.lo + f.len \div 2 /\ g.len = f.len - f.len \div 2

ChildrenOf(f) == {g \in frames : IsChildOf(g, f)}

\* The frame of the call __bitonic_sort(&mut nums[..], false, parallel).
IsRoot(f) == f.lo = 0 /\ f.len = Len(nums)

\* A frame whose thread can take a step, or whose merge workers can.
Runnable(f) ==
    \/ f.pc \in {"start", "merging", "mwait"}
    \/ f.pc = "halves" /\ \A g \in ChildrenOf(f) : g.pc = "done"

\* Lines 49-61: the empty vector returns at once; otherwise coerce, pad and
\* call __bitonic_sort on the whole vector.
BitonicCall ==
    /\ engine = "bitonic_parallel"
    /\ pc = "call"
    /\ IF nums = <<>>
       THEN /\ pc' = "returned"
            /\ NoComparison
            /\ UNCHANGED <<nums, origin_len, parallel, frames>>
       ELSE LET padded == pad_bitonic_parallel(nums)
            IN  /\ parallel' = coerce_bitonic_parallel(req)
                /\ origin_len' = Len(nums)
                /\ nums' = padded
                /\ frames' = {Frame(0, Len(padded), FALSE, coerce_bitonic_parallel(req))}
                /\ pc' = "sorting"
                /\ Compares(fold_compares_none(nums),
                            fold_pairs(nums, TRUE), fold_pairs(Flat(Len(nums)), TRUE))
    /\ UNCHANGED <<args, size, round, todo, failed, spawned>>

\* Lines 111-134: a frame starts.  With len <= 1 it returns.  With
\* parallel <= 1 the two halves and every merge run on its own thread, which
\* has its slice to itself.  Otherwise it spawns its two children.
FrameEnter(f) ==
    /\ pc = "sorting"
    /\ f.pc = "start"
    /\ IF f.len <= 1
       THEN /\ frames' = (frames \ {f}) \cup {[f EXCEPT !.pc = "done"]}
            /\ NoComparison
            /\ UNCHANGED <<nums, spawned>>
       ELSE IF f.parallel <= 1
            THEN /\ nums' = Splice(nums, f.lo,
                                   bitonic_sort_inline(Slice(nums, f.lo, f.lo + f.len),
                                                       f.reverse))
                 /\ frames' = (frames \ {f}) \cup {[f EXCEPT !.pc = "done"]}
                 /\ Compares(network_compares_none(Slice(nums, f.lo, f.lo + f.len)),
                             network_pairs(f.lo, f.len), network_pairs(f.lo, f.len))
                 /\ UNCHANGED spawned
            ELSE /\ frames' = (frames \ {f})
                                \cup {[f EXCEPT !.pc = "halves"], LeftChild(f), RightChild(f)}
                 /\ spawned' = spawned + 2
                 /\ NoComparison
                 /\ UNCHANGED nums
    /\ UNCHANGED <<args, origin_len, pc, parallel, size, round, todo, failed>>

\* Line 133: the scope ends when both children have finished; line 135.
HalvesJoin(f) ==
    /\ pc = "sorting"
    /\ f.pc = "halves"
    /\ Cardinality(ChildrenOf(f)) = 2
    /\ \A g \in ChildrenOf(f) : g.pc = "done"
    /\ frames' = (frames \ ({f} \cup ChildrenOf(f)))
                   \cup {[f EXCEPT !.pc = "merging", !.size = f.len, !.i = 0]}
    /\ NoComparison
    /\ UNCHANGED <<args, nums, origin_len, pc, parallel, size, round, todo, failed, spawned>>

\* Lines 79-103 for the call of line 138, where parallel > 1: partition the
\* pairs of window i and spawn the merge workers.
MergeSpawn(f) ==
    /\ pc = "sorting"
    /\ f.pc = "merging"
    /\ LET part == merge_partition(f.size, f.parallel)
       IN  /\ frames' = (frames \ {f})
                          \cup {[f EXCEPT !.pc = "mwait", !.msize = part.size,
                                          !.mpar = part.parallel,
                                          !.todo = 0..(part.parallel - 1)]}
           /\ spawned' = spawned + part.parallel
    /\ NoComparison
    /\ UNCHANGED <<args, nums, origin_len, pc, parallel, size, round, todo, failed>>

\* A merge worker that never leaves its loop: it compare-swaps its chunk
\* and stays among the threads its scope waits for.
MergeWorker_never_exits(f, k) ==
    /\ pc = "sorting"
    /\ f.pc = "mwait"
    /\ k \in f.todo
    /\ nums' = merge_worker_body(nums, f.lo + f.i * f.size, f.size, f.reverse, k, f.msize)
    /\ Compares(merge_worker_compares_none(nums, f.lo + f.i * f.size, f.size, k, f.msize),
                merge_worker_pairs(f.lo + f.i * f.size, f.size, k, f.msize),
                merge_worker_pairs(f.lo + f.i * f.size, f.size, k, f.msize))
    /\ UNCHANGED <<args, origin_len, pc, parallel, size, round, todo, failed, spawned, frames>>

\* Lines 88-102: merge worker k of frame f compare-swaps its chunk of pairs.
MergeWorker(f, k) ==
    /\ pc = "sorting"
    /\ f.pc = "mwait"
    /\ k \in f.todo
    /\ nums' = merge_worker_body(nums, f.lo + f.i * f.size, f.size, f.reverse, k, f.msize)
    /\ frames' = (frames \ {f}) \cup {[f EXCEPT !.todo = f.todo \ {k}]}
    /\ Compares(merge_worker_compares_none(nums, f.lo + f.i * f.size, f.size, k, f.msize),
                merge_worker_pairs(f.lo + f.i * f.size, f.size, k, f.msize),
                merge_worker_pairs(f.lo + f.i * f.size, f.size, k, f.msize))
    /\ UNCHANGED <<args, origin_len, pc, parallel, size, round, todo, failed, spawned>>

\* Line 104: the scope of __bitonic_merge ends when its workers have
\* finished; lines 137-141: the next window, the next size, or the return.
MergeJoin(f) ==
    /\ pc = "sorting"
    /\ f.pc = "mwait"
    /\ f.todo = {}
    /\ frames' = (frames \ {f}) \cup
         {IF f.i + 1 < f.len \div f.size
          THEN [f EXCEPT !.pc = "merging", !.i = f.i + 1]
          ELSE IF f.size \div 2 > 1
               THEN [f EXCEPT !.pc = "merging", !.size = f.size \div 2, !.i = 0]
               ELSE [f EXCEPT !.pc = "done", !.size = f.size \div 2, !.i = 0]}
    /\ NoComparison
    /\ UNCHANGED <<args, nums, origin_len, pc, parallel, size, round, todo, failed, spawned>>

\* Line 62: __bitonic_sort has returned on the whole vector; truncate.
BitonicReturn ==
    /\ engine = "bitonic_parallel"
    /\ pc = "sorting"
    /\ \E f \in frames : IsRoot(f) /\ f.pc = "done"
    /\ nums' = truncate(nums, origin_len)
    /\ frames' = {}
    /\ pc' = "returned"
    /\ NoComparison
    /\ UNCHANGED <<args, origin_len, parallel, size, round, todo, failed, spawned>>

(***************************************************************************)
(* Scheduling.  Schedule lets one of the runnable threads that Pick keeps  *)
(* take the next step.  Next lets any runnable thread run:                 *)
(* its behaviours are all interleavings.  NextInOrder runs the runnable    *)
(* thread of the lowest index only: its behaviours are behaviours of Next, *)
(* one per call, short enough for vectors as long as the u8 parallelism.   *)
(***************************************************************************)
LeastOf(S) == {x \in S : \A y \in S : x <= y}

\* The threads among S that may take the next step.
Pick(S, in_order) == IF in_order THEN LeastOf(S) ELSE S

\* The slices' offsets of the frames that can run.
RunnableLos == {f.lo : f \in {g \in frames : Runnable(g)}}

Schedule(in_order) ==
    \/ SerialCall
    \/ ParallelSortCall
    \/ \E i \in Pick(todo, in_order) : LocalSortWorker(i)
    \/ \E i \in Pick(todo, in_order) : MergeRoundWorker(i)
    \/ Barrier
    \/ BitonicCall
    \/ \E f \in frames : f.lo \in Pick(RunnableLos, in_order) /\ FrameEnter(f)
    \/ \E f \in frames : f.lo \in Pick(RunnableLos, in_order) /\ HalvesJoin(f)
    \/ \E f \in frames : f.lo \in Pick(RunnableLos, in_order) /\ MergeSpawn(f)
    \/ \E f \in frames : f.lo \in Pick(RunnableLos, in_order)
                           /\ \E k \in Pick(f.todo, in_order) : MergeWorker(f, k)
    \/ \E f \in frames : f.lo \in Pick(RunnableLos, in_order) /\ MergeJoin(f)
    \/ BitonicReturn

Next == Schedule(FALSE)

Spec == Init /\ [][Next]_vars

\* Calls under a fair scheduler: a thread that can run is not left waiting
\* for ever.  The elements are 0, 1 and NaN: termination depends on the
\* values only through the order of two elements and through NaN.
InitFair ==
    \E e \in Engines, v \in SeqsUpTo({0, 1, NaN}, MaxLen) :
        \E p \in Requests(e, (0..MaxReq) \cup {U8Max}) : Start(e, v, p)

SpecFair == InitFair /\ [][Next]_vars /\ WF_vars(Next)

(***************************************************************************)
(* Calls with every request 0..255, on short vectors.                      *)
(***************************************************************************)
InitAllRequests ==
    \E e \in Engines, v \in SeqsUpTo({0, 1, NaN}, MaxLenAllReq) :
        \E p \in Requests(e, 0..U8Max) : Start(e, v, p)

SpecAllRequests == InitAllRequests /\ [][Next]_vars

(***************************************************************************)
(* Calls on a vector long enough for a parallelism of u8::MAX to give      *)
(* every worker a chunk: a padded length of 2 * (u8::MAX + 1) = 512 has    *)
(* 256 pairs per top-level merge window.  The vector is the descending     *)
(* 384, 383, .., 1; the threads run in index order.                        *)
(***************************************************************************)
Descending(n) == [j \in 1..n |-> n + 1 - j]

LongLen == 3 * ((U8Max + 1) \div 2)

InitLong ==
    \E e \in Engines :
        \E p \in Requests(e, {U8Max}) : Start(e, Descending(LongLen), p)

NextInOrder == Schedule(TRUE)

SpecLong == InitLong /\ [][NextInOrder]_vars

(***************************************************************************)
(* The short calls under every schedule together with long calls under the *)
(* schedule in index order: those on the vector of 384 elements, and calls *)
(* on a descending vector of 96 elements, whose padded length of 128 is    *)
(* the longest that is shorter than a coerced parallelism (128 and 255).   *)
(***************************************************************************)
MidLen == 3 * ((U8Max + 1) \div 8)

InitMid ==
    \E e \in Engines :
        \E p \in Requests(e, {(U8Max + 1) \div 2, U8Max}) : Start(e, Descending(MidLen), p)

InitWide == Init \/ InitLong \/ InitMid

NextWide == Schedule(Len(input) > MaxLen)

SpecWide == InitWide /\ [][NextWide]_vars

(***************************************************************************)
(* Calls of the serial engine alone, on longer vectors.                    *)
(***************************************************************************)
InitSerial ==
    \E v \in SeqsUpTo(Values, MaxLenSerial) : Start("bitonic_serial", v, 0)

SpecSerial == InitSerial /\ [][SerialCall]_vars

(***************************************************************************)
(* Vocabulary of the properties.                                           *)
(***************************************************************************)
ParallelEngines == {"bitonic_parallel", "parallel_sort"}

Range(v) == {v[j] : j \in 1..Len(v)}

\* Every two elements of v are comparable.
TotallyOrdered(v) == NaN \notin Range(v)

NonDecreasing(v) == \A j \in 1..(Len(v) - 1) : v[j] <= v[j + 1]

Occurrences(v, x) == Cardinality({j \in 1..Len(v) : v[j] = x})

\* v and w hold the same multiset of elements.
SameMultiset(v, w) ==
    /\ Len(v) = Len(w)
    /\ \A x \in Range(v) \cup Range(w) : Occurrences(v, x) = Occurrences(w, x)

MaxOf(v) == CHOOSE x \in Range(v) : \A y \in Range(v) : x >= y

PowerOfTwo(n) == \E k \in 0..8 : n = 2 ^ k

\* The worker threads of bitonic_parallel that are spawned and have not
\* finished: the threads of the frames other than the caller's, and the
\* merge workers.
LiveFrameThreads == {f \in frames : ~IsRoot(f) /\ f.pc # "done"}
LiveMergeWorkers == UNION {{<<f.lo, f.len, k>> : k \in f.todo} : f \in frames}
LiveWorkers == Cardinality(LiveFrameThreads) + Cardinality(LiveMergeWorkers)

\* The threads of bitonic_parallel that are running, each with the indices
\* of nums it may read and write: the thread of a frame that is not waiting
\* at the end of a scope holds the slice of the frame; a merge worker holds
\* its two chunks.
RunningFrameThreads ==
    {<<"sort", f.lo, f.len, 0, (f.lo)..(f.lo + f.len - 1)>> :
        f \in {g \in frames : g.pc \in {"start", "merging"}}}

RunningMergeWorkers ==
    UNION {{<<"merge", f.lo, f.len, k,
              merge_worker_indices(f.lo + f.i * f.size, f.size, k, f.msize)>> : k \in f.todo} :
           f \in {g \in frames : g.pc = "mwait"}}

RunningBitonicThreads == RunningFrameThreads \cup RunningMergeWorkers

\* The core sort has returned and the vector is not yet truncated.
CoreSortFinished ==
    /\ pc = "sorting"
    /\ engine = "bitonic_parallel" => \E f \in frames : IsRoot(f) /\ f.pc = "done"
    /\ engine = "parallel_sort" => todo = {} /\ failed = {} /\ parallel <= 1

\* What a call with parallelism 1 returns on the vector v: the whole sort
\* runs on one thread.
OutputAtParallelismOne(e, v) ==
    IF v = <<>> THEN v
    ELSE IF e = "bitonic_parallel"
         THEN truncate(bitonic_sort_inline(pad_bitonic_parallel(v), FALSE), Len(v))
         ELSE truncate(sort_unstable_by(pad_parallel_sort(v)), Len(v))

(***************************************************************************)
(* The properties.                                                         *)
(***************************************************************************)
\* C1: on a totally ordered input, for every requested parallelism,
\* bitonic_parallel::bitonic_sort returns the vector non-decreasing and with
\* the multiset of the input.
C1_BitonicParallelSorts ==
    (engine = "bitonic_parallel" /\ pc = "returned" /\ TotallyOrdered(input))
        => NonDecreasing(nums) /\ SameMultiset(nums, input)

\* C2: on a totally ordered input, for every requested parallelism,
\* parallel_sort returns the vector non-decreasing and with the multiset of
\* the input.
C2_ParallelSortSorts ==
    (engine = "parallel_sort" /\ pc = "returned" /\ TotallyOrdered(input))
        => NonDecreasing(nums) /\ SameMultiset(nums, input)

\* C3: on a totally ordered input of any length, bitonic_serial::bitonic_sort
\* returns the vector ascending, of the same length, with the multiset of
\* the input.
C3_SerialSorts ==
    (engine = "bitonic_serial" /\ pc = "returned" /\ TotallyOrdered(input))
        => /\ NonDecreasing(nums)
           /\ Len(nums) = Len(input)
           /\ SameMultiset(nums, input)

\* C3 witness: the serial engine has returned on an unsorted vector whose
\* length is not a power of two.
C3_Witness ==
    /\ engine = "bitonic_serial"
    /\ pc = "returned"
    /\ TotallyOrdered(input)
    /\ Len(input) = MaxLenSerial
    /\ ~NonDecreasing(input)
    /\ NonDecreasing(nums)

\* C4: whatever the requested parallelism and the schedule, a parallel engine
\* returns on a totally ordered input the vector that the call with
\* parallelism 1 returns.
C4_ParallelismInvariance ==
    (engine \in ParallelEngines /\ pc = "returned" /\ TotallyOrdered(input))
        => nums = OutputAtParallelismOne(engine, input)

\* C5: when the core sort has finished, the positions origin_len.. of the
\* padded vector hold only the maximum of the input, and the truncated
\* output has the multiset of the input.
C5_PaddingRemovedByTruncation ==
    TotallyOrdered(input) =>
        /\ CoreSortFinished =>
              \A j \in (origin_len + 1)..Len(nums) : nums[j] = MaxOf(input)
        /\ pc = "returned" => SameMultiset(nums, input)

\* C6: when the call has ended, by a return or by a panic, the vector has
\* its original length.
C6_LengthRestored ==
    pc \in {"returned", "panicked"} => Len(nums) = Len(input)

\* C7: on an empty or single-element input a parallel engine spawns no
\* thread and returns the vector unchanged.
C7_TinyInputSpawnsNoThread ==
    (engine \in ParallelEngines /\ Len(input) <= 1)
        => /\ spawned = 0
           /\ pc = "returned" => nums = input

\* C8: the parallelism after coercion is a power of two not exceeding 255.
C8_CoercedIsPowerOfTwo ==
    /\ (engine = "bitonic_parallel" /\ pc = "sorting")
          => PowerOfTwo(parallel) /\ parallel <= U8Max
    /\ (engine = "parallel_sort" /\ pc = "sorting")
          => PowerOfTwo(coerce_parallel_sort(req)) /\ coerce_parallel_sort(req) <= U8Max

\* C9 as stated: bitonic_parallel coerces the request to the largest power
\* of two that is at most the request, and to 1 for a request of 0.
C9_CoercedRoundsDown ==
    (engine = "bitonic_parallel" /\ pc = "sorting")
        => /\ PowerOfTwo(parallel)
           /\ parallel <= (IF req = 0 THEN 1 ELSE req)
           /\ 2 * parallel > req

\* C9 as amended: bitonic_parallel coerces a request of at most 128 to the
\* smallest power of two that is at least the request (1 for a request of
\* 0), and a request above 128 to 255.
C9_CoercedRoundsUpOrSaturates ==
    (engine = "bitonic_parallel" /\ pc = "sorting")
        => IF req <= (U8Max + 1) \div 2
           THEN /\ PowerOfTwo(parallel)
                /\ parallel >= req
                /\ parallel = 1 \/ parallel \div 2 < req
           ELSE parallel = U8Max

\* C9 witness: a request of 3 has been coerced to 4.
C9_Witness ==
    engine = "bitonic_parallel" /\ pc = "sorting" /\ req = 3 /\ parallel = 4

\* C10: during a call of bitonic_parallel::bitonic_sort the worker threads
\* that are spawned and have not finished are never more than the coerced
\* parallelism.
C10_LiveWorkersWithinDegree ==
    (engine = "bitonic_parallel" /\ pc = "sorting") => LiveWorkers <= parallel

\* C11: in every engine a call that has compared two elements whose order is
\* undefined does not return: it panics.
C11_UndefinedOrderAborts ==
    pc = "returned" => ~none_cmp

\* C12: at every instant of a call of bitonic_parallel::bitonic_sort, any two
\* threads that are running at the same time access disjoint sets of indices
\* of the vector.
C12_BitonicThreadsDisjoint ==
    engine = "bitonic_parallel" =>
        \A t, u \in RunningBitonicThreads : t # u => t[5] \cap u[5] = {}

\* C12 witness: two merge workers of one merge step are running while the
\* calling thread waits for them.
C12_Witness ==
    /\ engine = "bitonic_parallel"
    /\ \E f \in frames : f.pc = "mwait" /\ Cardinality(f.todo) >= 2
    /\ Cardinality(RunningBitonicThreads) >= 2

\* C13: at every instant of a call of parallel_sort, any two workers that are
\* running at the same time (of phase 1, or of one merge round) access
\* disjoint ranges of indices of the vector.
C13_ParallelSortWorkersDisjoint ==
    engine = "parallel_sort" =>
        \A i, j \in todo :
            i # j => worker_indices(i, size) \cap worker_indices(j, size) = {}

\* C13 witness: two workers of a merge round are running, each on a window
\* of at least two elements.
C13_Witness ==
    /\ engine = "parallel_sort"
    /\ round = "merge"
    /\ Cardinality(todo) >= 2
    /\ size >= 2

\* C14: in parallel_sort a merge round starts only when every worker of the
\* round before it (of phase 1 for the first) has finished; in
\* bitonic_parallel an activation leaves the scope of its two half-sort
\* workers only when both have finished, merges only then, and starts or
\* leaves a merge step only when no worker of a merge step is running.
C14_BarrierOrdering ==
    [][/\ (engine = "parallel_sort" /\ round' = "merge"
              /\ (round # "merge" \/ size' # size \/ todo' \ todo # {}))
          => (todo = {} /\ failed = {})
       /\ \A f \in frames :
             /\ f.pc \in {"merging", "mwait"} => ChildrenOf(f) = {}
             /\ \A g \in frames' :
                   (g.lo = f.lo /\ g.len = f.len) =>
                      /\ (f.pc = "halves" /\ g.pc # "halves")
                            => /\ Cardinality(ChildrenOf(f)) = 2
                               /\ \A c \in ChildrenOf(f) : c.pc = "done"
                      /\ (f.pc = "mwait") # (g.pc = "mwait") => f.todo = {}
                      /\ (f.pc = "mwait" /\ g.pc = "mwait") => g.todo \subseteq f.todo]_vars

\* C14 witness: the second merge round of parallel_sort is running.
C14_Witness ==
    /\ engine = "parallel_sort"
    /\ round = "merge"
    /\ size >= 4
    /\ todo # {}

\* C15: in every parallel merge step of bitonic_parallel, on a window of
\* len >= 2, the chunks of the workers partition the len / 2 pairs: every
\* pair belongs to the chunk of exactly one worker, no chunk is empty, and
\* when len / 2 is smaller than the parallelism there are len / 2 workers
\* with one pair each.
C15_MergeChunksPartitionPairs ==
    \A f \in frames :
        (engine = "bitonic_parallel" /\ f.pc = "mwait" /\ f.size >= 2) =>
            /\ \A o \in 0..(f.size \div 2 - 1) :
                  Cardinality({k \in 0..(f.mpar - 1) :
                                  o \in merge_worker_slice1(f.size, k, f.msize)}) = 1
            /\ \A k \in 0..(f.mpar - 1) : merge_worker_slice1(f.size, k, f.msize) # {}
            /\ f.size \div 2 < f.parallel => (f.mpar = f.size \div 2 /\ f.msize = 1)

\* C16: at every barrier of parallel_sort on a totally ordered input (the
\* workers of phase 1 or of a merge round have all finished) the worker count
\* times the window size is the padded length and every window is sorted;
\* with a worker count of 1 the one window is the whole padded vector.
C16_WindowsCoverAndSorted ==
    (engine = "parallel_sort" /\ pc = "sorting" /\ todo = {} /\ failed = {}
        /\ TotallyOrdered(input)) =>
        /\ parallel * size = Len(nums)
        /\ \A i \in 0..(parallel - 1) :
              /\ chunk_end(i, size) <= Len(nums)
              /\ NonDecreasing(Slice(nums, chunk_start(i, size), chunk_end(i, size)))
        /\ parallel = 1 => (size = Len(nums) /\ NonDecreasing(nums))

\* C17: under fair scheduling every call of every engine ends: it returns
\* or panics, and no worker is left running.
C17_CallTerminates ==
    <>(pc \in {"returned", "panicked"} /\ todo = {} /\ LiveWorkers = 0)

\* C17 witness: a call of bitonic_parallel that spawned half-sort workers
\* and merge workers has returned.
C17_Witness ==
    /\ engine = "bitonic_parallel"
    /\ pc = "returned"
    /\ spawned >= 4

\* C18: the bitonic engines are oblivious: every step of a call of
\* bitonic_serial or bitonic_parallel compares the index pairs that the same
\* step compares on a vector of the same length whose elements are all
\* equal.
C18_ComparedPairsIgnoreValues ==
    engine \in {"bitonic_serial", "bitonic_parallel"} => compared = compared_ref

\* C19: every range a worker takes from the raw pointer lies within the
\* slice the pointer was taken from: both chunks of a running merge worker
\* within its window, the window within the vector, the halves of the two
\* half-sort workers within their parent's slice (bitonic_parallel), and
\* the chunk or window of a running worker within the vector
\* (parallel_sort).
C19_WorkerRangesInBounds ==
    /\ engine = "bitonic_parallel" =>
          \A f \in frames :
              /\ f.lo >= 0 /\ f.lo + f.len <= Len(nums)
              /\ \A g \in ChildrenOf(f) : g.lo >= f.lo /\ g.lo + g.len <= f.lo + f.len
              /\ f.pc = "mwait" =>
                    /\ f.lo + (f.i + 1) * f.size <= f.lo + f.len
                    /\ \A k \in f.todo :
                          (merge_worker_slice1(f.size, k, f.msize)
                             \cup merge_worker_slice2(f.size, k, f.msize))
                              \subseteq 0..(f.size - 1)
    /\ engine = "parallel_sort" =>
          \A i \in todo : worker_indices(i, size) \subseteq 0..(Len(nums) - 1)

\* C19 witness: the last merge worker of a merge step of several workers is
\* running, and its second chunk ends with the window.
C19_Witness ==
    /\ engine = "bitonic_parallel"
    /\ \E f \in frames :
          /\ f.pc = "mwait"
          /\ f.mpar >= 2
          /\ (f.mpar - 1) \in f.todo
          /\ f.size \div 2 + f.mpar * f.msize = f.size

\* C20: the fallback worker counts are not truncated by their casts.  When a
\* merge step of bitonic_parallel found its chunk size 0, len / 2 fits in a
\* u8 and the workers it spawned are len / 2, at least one; when
\* parallel_sort found its chunk size below 1, len fits in a u8 and the
\* workers of phase 1 are len, at least one.
C20_FallbackCountsNotTruncated ==
    /\ engine = "bitonic_parallel" =>
          \A f \in frames :
              (f.pc = "mwait" /\ f.size \div (2 * f.parallel) = 0) =>
                  /\ f.size \div 2 <= U8Max
                  /\ f.mpar = f.size \div 2
                  /\ f.mpar >= 1
    /\ (/\ engine = "parallel_sort"
        /\ round = "local"
        /\ Len(nums) \div coerce_parallel_sort(req) < 1) =>
          /\ Len(nums) <= U8Max
          /\ parallel = Len(nums)
          /\ parallel >= 1

\* C20 witness: a merge step of bitonic_parallel took the fallback on a
\* window of 256 elements and waits for its 128 workers.
C20_Witness ==
    /\ engine = "bitonic_parallel"
    /\ \E f \in frames :
          /\ f.pc = "mwait"
          /\ f.size \div (2 * f.parallel) = 0
          /\ f.size = U8Max + 1
          /\ f.mpar = (U8Max + 1) \div 2

=============================================================================
